---- MODULE Spec2Model ----
(***************************************************************************)
(* Warm Pulse Arcade (src/src/App.tsx): the App shell (view, progression   *)
(* record, persistence) and the seven mini-games it mounts one at a time.  *)
(*                                                                         *)
(* Conventions of the model                                                *)
(*  - A handler, a timer callback or a frame callback is one action; the   *)
(*    React commit that follows it (re-render, effect cleanup and re-run)  *)
(*    is part of the same action.                                          *)
(*  - Quantities the code keeps in [0,1] are held in thousandths           *)
(*    (0..1000); times are milliseconds; Math.random() is a sample r in    *)
(*    thousandths, 0 <= r < 1000.                                          *)
(*  - Time enters as elapsed intervals drawn at each step (the gap since   *)
(*    the previous frame, the offset of a tap from the last beat).         *)
(*  - A pending setTimeout / requestAnimationFrame callback is a flag of   *)
(*    the component that scheduled it; callbacks that survive the unmount  *)
(*    of their component are counted in `stale`.                           *)
(*                                                                         *)
(* Specifications                                                          *)
(*  - Spec: game sessions on a first run (nothing persisted), under a      *)
(*    working, an absent and a throwing tone backend.                      *)
(*  - SpecStore: the progression store (award, spend, onExit, the shop,    *)
(*    the palette selector) started on what the application itself saved.  *)
(*  - SpecLoad: the same store started on any localStorage content.        *)
(***************************************************************************)
EXTENDS Integers, Sequences, FiniteSets, TLC

\* ------------------------------------------------------------------------
\* Bounds of the model
\* ------------------------------------------------------------------------
\* Game sessions started in one run of the application.
MaxSessions == 1
\* A scoring step that would take the session score above MaxScore is not taken.
MaxScore == 12
\* GameHeartbeat's calibration taps kept while no calibration completes.
MaxTaps == 6
\* GamePressureCraft's level a session is followed to.
MaxLevel == 2
\* An award that would take the balance above MaxTokens is not made.
MaxTokens == 30
\* Frames of GameAscendLight's loop a session is followed for.
MaxAscendFrames == 4

\* ------------------------------------------------------------------------
\* Utilities
\* ------------------------------------------------------------------------
Max(a, b) == IF a >= b THEN a ELSE b
Min(a, b) == IF a <= b THEN a ELSE b

\* clamp(v, a, b) = Math.max(a, Math.min(b, v))
clamp(v, a, b) == Max(a, Min(b, v))

\* rand(min, max) = Math.random() * (max - min) + min, r = Math.random() in thousandths
rand(r, min, max) == ((r * (max - min)) \div 1000) + min

\* Math.round(num / den) for den > 0: floor(x + 1/2)
Round(num, den) == (2 * num + den) \div (2 * den)

\* A faulty accuracy, without the clamp
accNoClamp(err, tol) == tol - err

\* acc = 1 - clamp(err / tol, 0, 1), as the numerator of a fraction over tol
acc(err, tol) == tol - clamp(err, 0, tol)

\* Math.floor(a / b) for b > 0
Floor(a, b) == a \div b

GameKeys == {"pulse", "heat", "tension", "echo", "pressure", "ascend", "heart"}

\* PALETTES, by key; PALETTES[0] is aurora
PALETTES == <<"aurora", "molten", "sunset", "lilac", "reef">>
PaletteKeys == {PALETTES[i] : i \in 1..Len(PALETTES)}

\* PALETTES.find(p => p.key === k) || PALETTES[0]
FindPalette(k) == IF k \in PaletteKeys THEN k ELSE PALETTES[1]

\* ------------------------------------------------------------------------
\* State
\* ------------------------------------------------------------------------
VARIABLES
  boot,        \* localStorage[LS_KEY] as the application found it when it started
  audio,       \* the tone backend: "ok", "absent" (no AudioContext) or "throws"
  audioReady,  \* App.audioReady: the start overlay has been dismissed
  view,        \* App.view: "menu", "store", "about", a game key; "crashed" once React has unmounted the tree
  state,       \* App.state: the progression record (SaveState)
  palette,     \* App.palette (its key)
  storage,     \* localStorage[LS_KEY]
  sessions,    \* game sessions started so far
  settle,      \* calls of onExit and award made by the session that is live or was last
               \* live, and the score last passed to onExit
  stale,       \* callbacks of unmounted game components that are still scheduled
  pulse,       \* GamePulseLink
  heat,        \* GameHeatBloom
  tension,     \* GameTensionLine
  echo,        \* GameEchoOrb
  pressure,    \* GamePressureCraft
  ascend,      \* GameAscendLight
  heart        \* GameHeartbeat

appVars == <<boot, audio, audioReady, view, state, palette, storage, sessions, settle, stale>>
gameVars == <<pulse, heat, tension, echo, pressure, ascend, heart>>
vars == <<boot, audio, audioReady, view, state, palette, storage, sessions, settle, stale,
          pulse, heat, tension, echo, pressure, ascend, heart>>

\* ------------------------------------------------------------------------
\* Haptics and audio
\* ------------------------------------------------------------------------
AudioModes == {"ok", "absent", "throws"}

\* vibrate(pattern): a missing navigator.vibrate is skipped and an error it
\* raises is caught, so the call returns normally whatever the backend does.
vibrateReturns == TRUE

\* Sound.tone / Sound.blip return normally when the AudioContext works or is
\* absent (ensure() returns null); nothing catches an error raised by the
\* context's node creation or scheduling, which reaches the caller.
toneReturns == audio # "throws"

\* ------------------------------------------------------------------------
\* Store & persistence
\* ------------------------------------------------------------------------
ZeroBest == [g \in GameKeys |-> 0]

\* A value as JSON.parse returns it: `t` its type, `has` the properties of
\* the record it carries, `keys` the game keys its `best` carries, `nan`
\* the game keys whose best is NaN (best[g] is read only for g in keys \ nan),
\* `nul` the game keys whose best is null (which counts as 0 in Math.max).
DefaultState ==
  [t |-> "obj", has |-> {"tokens", "palette", "best"}, tokens |-> 0,
   palette |-> PALETTES[1], best |-> ZeroBest, keys |-> GameKeys, nan |-> {},
   nul |-> {}]

\* The documented shape { tokens, palette, best: { all seven keys } }
WellShaped(v) ==
  /\ v.t = "obj"
  /\ v.has = {"tokens", "palette", "best"}
  /\ v.keys = GameKeys
  /\ v.nan = {}
  /\ v.nul = {}

\* localStorage content: absent ("none"), unreadable (getItem / setItem
\* throw), the empty string, text that is not JSON, or JSON text of `val`.
NoDoc == [kind |-> "none", val |-> DefaultState]

\* loadState()
loadState(doc) ==
  IF doc.kind = "json" THEN doc.val ELSE DefaultState

\* JSON.stringify(s), as the value its text parses to: a NaN is written as
\* null, every other number, the string and the keys as they are
stringify(s) ==
  [s EXCEPT !.nan = {}, !.nul = @ \cup s.nan,
            !.best = [g \in GameKeys |-> IF g \in s.nan THEN 0 ELSE s.best[g]]]

\* A faulty saveState, which writes nothing
saveStateLost(doc, s) == doc

\* saveState(s): a failing write is swallowed
saveState(doc, s) ==
  IF doc.kind = "throws" THEN doc ELSE [kind |-> "json", val |-> stringify(s)]

\* A faulty award, which adds n whatever its sign
awardSigned(s, n) == [s EXCEPT !.tokens = @ + n]

\* award(n) = setState(s => ({...s, tokens: s.tokens + Math.max(0, n)}))
award(s, n) == [s EXCEPT !.tokens = @ + Max(0, n)]

\* spend(n) = setState(s => ({...s, tokens: Math.max(0, s.tokens - n)}))
spend(s, n) == [s EXCEPT !.tokens = Max(0, @ - n)]

\* A faulty recordBest, which stores the last score
recordBestLast(s, g, gscore) == [s EXCEPT !.best[g] = gscore, !.keys = @ \cup {g}]

\* onExit's update of the best score of the game in view:
\* best[view] = Math.max(s.best[view], gscore), which is NaN when best[view]
\* is undefined or NaN
recordBest(s, g, gscore) ==
  IF g \in s.keys \ s.nan
    THEN [s EXCEPT !.best[g] = Max(@, gscore)]
    ELSE [s EXCEPT !.keys = @ \cup {g}, !.nan = @ \cup {g}]

\* A faulty divisor, 6 for every game
TokenDivisorSix(g) == 6

\* Tokens per score: the divisor of each game's Exit & Save button
TokenDivisor(g) ==
  CASE g \in {"pulse", "heat"} -> 5
    [] g = "ascend" -> 8
    [] OTHER -> 6

\* onExit(gscore): ignored outside a game; else best[view] = max(best[view], gscore), view = menu
onExitState(v, s, gscore) ==
  IF v \in {"menu", "store", "about"} THEN s ELSE recordBest(s, v, gscore)

onExitView(v) ==
  IF v \in {"menu", "store", "about"} THEN v ELSE "menu"

\* ------------------------------------------------------------------------
\* Game components: state after useState / useRef, nothing scheduled
\* ------------------------------------------------------------------------
\* GamePulseLink: score, beatRef.bpm, the frame callback (raf) and the beat timer (beat)
PulseInit == [score |-> 0, bpm |-> 84, raf |-> FALSE, beat |-> FALSE]

\* GameHeatBloom: score, heat.current, target.current, holding.current, bloom, the frame callback
HeatInit ==
  [score |-> 0, heat |-> 0, min |-> 450, max |-> 650, holding |-> FALSE,
   bloom |-> 0, raf |-> FALSE]

\* GameTensionLine: score, len, target, pulling.current, the frame callback
TensionInit ==
  [score |-> 0, len |-> 400, target |-> 0, pulling |-> FALSE, raf |-> FALSE]

\* GameEchoOrb: phase, intervalMs, score, taps.current, the listen effect's
\* timer (0 none, 1 the 300 ms cue timer, 2 the intervalMs timer), the
\* 700 ms timer of onTap, and the cues (pulse, tone and vibration) the
\* listen effect has emitted in the current cycle
EchoInit ==
  [phase |-> "listen", intervalMs |-> 800, score |-> 0, taps |-> <<>>,
   timer |-> 0, resultTimer |-> FALSE, cues |-> 0]

\* GamePressureCraft: score, level, fill, holding, zone, the frame callback
PressureInit ==
  [score |-> 0, level |-> 1, fill |-> 0, holding |-> FALSE,
   a |-> 500, b |-> 700, dir |-> 1, raf |-> FALSE]

\* GameHeartbeat: phase, bpm (a fraction num/den, 0 before calibration),
\* taps.current, score, the beat timer and the 180 ms pulse-off timer
HeartInit ==
  [phase |-> "cal", bpmNum |-> 0, bpmDen |-> 1, taps |-> <<>>, score |-> 0,
   beat |-> FALSE, pulseOff |-> FALSE]

\* Callbacks that outlive their component: how many of each kind are
\* scheduled, and the kinds that have run after the unmount
StaleInit == [echoResult |-> 0, heartPulseOff |-> 0, ascendLoop |-> 0, fired |-> {}]

SettleInit == [onExit |-> 0, award |-> 0, score |-> 0]

\* The canvas size GameAscendLight starts from (let W = 360, H = 560), in px;
\* the canvas element is taken to measure as much, so resize() keeps them.
CanvasW == 360
CanvasH == 560

\* GameAscendLight: score, pressRef.current, and the frame effect's world:
\* y, vy (tenths of a px, tenths of a px per second), t (ms), alive, the
\* zones' x and y (tenths of a px), and the frame callback
AscendInit ==
  [score |-> 0, press |-> FALSE, alive |-> TRUE, y |-> 6 * CanvasH, vy |-> 0, t |-> 0,
   zx |-> [i \in 1..5 |-> 10 * ((i - 1) * 220 + 200)], zy |-> [i \in 1..5 |-> 0],
   raf |-> FALSE]

\* ------------------------------------------------------------------------
\* App: mounting and unmounting a game
\* ------------------------------------------------------------------------
InGame == view \in GameKeys

\* The session score shown by the game in view
Score(g) ==
  CASE g = "pulse" -> pulse.score
    [] g = "heat" -> heat.score
    [] g = "tension" -> tension.score
    [] g = "echo" -> echo.score
    [] g = "pressure" -> pressure.score
    [] g = "ascend" -> ascend.score
    [] g = "heart" -> heart.score

\* What the effect cleanups leave scheduled when the game in view unmounts:
\*  - GamePulseLink, GameHeatBloom, GameTensionLine, GamePressureCraft cancel
\*    their frame callback, GamePulseLink and GameHeartbeat clear the beat
\*    timer, GameEchoOrb clears the listen effect's timer;
\*  - GameEchoOrb's 700 ms timer is never cleared;
\*  - GameHeartbeat's 180 ms pulse-off timer is never cleared (its id is overwritten);
\*  - GameAscendLight's frame callback is never cancelled and its closure's
\*    `running` stays true (setRunning(false) acts on an unmounted component).
LeftScheduled ==
  [stale EXCEPT !.echoResult = @ + (IF echo.resultTimer THEN 1 ELSE 0),
                !.heartPulseOff = @ + (IF heart.pulseOff THEN 1 ELSE 0),
                !.ascendLoop = @ + (IF ascend.raf THEN 1 ELSE 0)]

\* The game component in view is unmounted and its state discarded.
Teardown ==
  /\ stale' = LeftScheduled
  /\ pulse' = PulseInit
  /\ heat' = HeatInit
  /\ tension' = TensionInit
  /\ echo' = EchoInit
  /\ pressure' = PressureInit
  /\ ascend' = AscendInit
  /\ heart' = HeartInit

\* An error thrown by an effect (no error boundary): React unmounts the tree.
CrashApp ==
  /\ view' = "crashed"
  /\ Teardown

\* Clicking a menu card: setView(key). The part common to the seven games.
EnterGame(g) ==
  /\ audioReady
  /\ view = "menu"
  /\ sessions < MaxSessions
  /\ sessions' = sessions + 1
  /\ settle' = SettleInit
  /\ UNCHANGED <<boot, audio, audioReady, state, palette, storage>>

\* "Tap to Start": startAudio
StartAudio ==
  /\ ~audioReady
  /\ view # "crashed"
  /\ audioReady' = TRUE
  /\ UNCHANGED <<boot, audio, view, state, palette, storage, sessions, settle, stale>>
  /\ UNCHANGED gameVars

\* "Open Shop" / "About": setView
OpenView(v) ==
  /\ audioReady
  /\ view = "menu"
  /\ view' = v
  /\ UNCHANGED <<boot, audio, audioReady, state, palette, storage, sessions, settle, stale>>
  /\ UNCHANGED gameVars

\* TopBar "Back": setView('menu'); a game in view is unmounted
Back ==
  /\ audioReady
  /\ view \notin {"menu", "crashed"}
  /\ view' = "menu"
  /\ Teardown
  /\ UNCHANGED <<boot, audio, audioReady, state, palette, storage, sessions, settle>>

\* "Exit & Save" of the game in view: award(Math.floor(score / k)); onExit(score)
ExitAndSave ==
  /\ audioReady
  /\ InGame
  /\ state' = onExitState(view, award(state, Floor(Score(view), TokenDivisor(view))), Score(view))
  /\ view' = onExitView(view)
  /\ storage' = saveState(storage, state')
  /\ settle' = [onExit |-> settle.onExit + 1, award |-> settle.award + 1, score |-> Score(view)]
  /\ Teardown
  /\ UNCHANGED <<boot, audio, audioReady, palette, sessions>>

\* ------------------------------------------------------------------------
\* PulseLink
\* ------------------------------------------------------------------------
\* Math.round(rand(72, 128))
PulseBpm(r) == Round(72000 + 56 * r, 1000)

\* onTap's gain for a tap `off` ms after the last beat: with interval =
\* 60000 / bpm, d = off % interval, err = min(d, interval - d),
\* gain = round(10 * (1 - clamp(err / (interval / 2), 0, 1))); computed on
\* d * bpm, err * bpm to stay in integers.
\* A faulty PulseGain, whose tolerance is the whole interval
PulseGainWholeInterval(bpm, off) ==
  LET d == (off * bpm) % 60000
      err == Min(d, 60000 - d)
  IN Round(10 * acc(err, 60000), 60000)

PulseGain(bpm, off) ==
  LET d == (off * bpm) % 60000
      err == Min(d, 60000 - d)
  IN Round(10 * acc(err, 30000), 30000)

\* Mount: the frame effect schedules its callback; the beat effect picks
\* the tempo and runs the first tick (setBeatAt, tone, vibrate, setTimeout).
PulseMount(r) ==
  /\ EnterGame("pulse")
  /\ IF toneReturns
       THEN /\ view' = "pulse"
            /\ pulse' = [PulseInit EXCEPT !.bpm = PulseBpm(r), !.raf = TRUE, !.beat = TRUE]
            /\ UNCHANGED <<heat, tension, echo, pressure, ascend, heart, stale>>
       ELSE CrashApp

\* The frame callback: setPhase (visual only), requestAnimationFrame(loop)
PulseFrame ==
  /\ view = "pulse"
  /\ pulse.raf
  /\ UNCHANGED vars

\* The beat timer: setBeatAt, tone, vibrate, setTimeout(tick, interval)
PulseBeat ==
  /\ view = "pulse"
  /\ pulse.beat
  /\ pulse' = [pulse EXCEPT !.beat = toneReturns]
  /\ UNCHANGED appVars
  /\ UNCHANGED <<heat, tension, echo, pressure, ascend, heart>>

\* onTap, `off` ms after the last beat
PulseOnTap(off) ==
  /\ audioReady
  /\ view = "pulse"
  /\ pulse.score + PulseGain(pulse.bpm, off) <= MaxScore
  /\ pulse' = IF toneReturns
                THEN [pulse EXCEPT !.score = @ + PulseGain(pulse.bpm, off)]
                ELSE pulse
  /\ UNCHANGED appVars
  /\ UNCHANGED <<heat, tension, echo, pressure, ascend, heart>>

\* ------------------------------------------------------------------------
\* HeatBloom
\* ------------------------------------------------------------------------
HeatMount ==
  /\ EnterGame("heat")
  /\ view' = "heat"
  /\ heat' = [HeatInit EXCEPT !.raf = TRUE]
  /\ UNCHANGED <<pulse, tension, echo, pressure, ascend, heart, stale>>

\* A faulty heat step, which rises at 0.05/s
HeatStepSlow(h, holding, dt) ==
  clamp(IF holding THEN h + dt \div 20 ELSE h - (7 * dt) \div 20, 0, 1000)

\* A faulty heat step, without the clamp to [0, 1]
HeatStepNoClamp(h, holding, dt) ==
  IF holding THEN h + (11 * dt) \div 20 ELSE h - (7 * dt) \div 20

\* heat physics: kUp = 0.55, kDown = 0.35 per second, clamped to [0, 1]
HeatStep(h, holding, dt) ==
  clamp(IF holding THEN h + (11 * dt) \div 20 ELSE h - (7 * dt) \div 20, 0, 1000)

\* A faulty overheat penalty, without the floor at 0
HeatPenaltyNoFloor(s) == s - 3

\* The penalty of the overheat branch: setScore(s => Math.max(0, s - 3))
HeatPenalty(s) == Max(0, s - 3)

\* The frame callback as a function of the component's state: dt ms since
\* the last frame, r1, r2 the samples of the success branch's rand calls,
\* r3, r4 those of the overheat branch. A tone that throws ends the callback
\* where it is called: the updates made before it stand, and the callback
\* is not rescheduled; the effect (deps [bloom]) reschedules it only when
\* bloom has changed.
HeatLoop(h, dt, r1, r2, r3, r4) ==
  LET heat1 == HeatStep(h.heat, h.holding, dt)
      inBand == heat1 >= h.min /\ heat1 <= h.max
      grow == (3 * dt) \div 5
      bloom1 == IF inBand THEN clamp(h.bloom + grow, 0, 1000)
                          ELSE clamp(h.bloom - (4 * dt) \div 5, 0, 1000)
      success == inBand /\ h.bloom + grow >= 1000
      afterBand ==
        IF success
          THEN IF toneReturns
                 THEN [h EXCEPT !.heat = heat1, !.score = @ + 10, !.bloom = 0,
                                !.min = rand(r1, 300, 500), !.max = rand(r2, 600, 800)]
                 ELSE [h EXCEPT !.heat = heat1, !.score = @ + 10, !.bloom = bloom1,
                                !.raf = (bloom1 # h.bloom)]
          ELSE [h EXCEPT !.heat = heat1, !.bloom = bloom1]
      thrown == success /\ ~toneReturns
  IN IF thrown THEN afterBand
     ELSE IF afterBand.heat >= 995
       THEN IF toneReturns
              THEN [afterBand EXCEPT !.score = HeatPenalty(@), !.heat = 300, !.bloom = 0,
                                     !.min = rand(r3, 350, 550), !.max = rand(r4, 600, 850)]
              ELSE [afterBand EXCEPT !.raf = (afterBand.bloom # h.bloom)]
       ELSE afterBand

HeatFrame(dt, r1, r2, r3, r4) ==
  /\ view = "heat"
  /\ heat.raf
  /\ HeatLoop(heat, dt, r1, r2, r3, r4).score <= MaxScore
  /\ heat' = HeatLoop(heat, dt, r1, r2, r3, r4)
  /\ UNCHANGED appVars
  /\ UNCHANGED <<pulse, tension, echo, pressure, ascend, heart>>

\* onPointerDown: holding.current = true; sound.tone(320, 0.04)
HeatPointerDown ==
  /\ audioReady
  /\ view = "heat"
  /\ heat' = [heat EXCEPT !.holding = TRUE]
  /\ UNCHANGED appVars
  /\ UNCHANGED <<pulse, tension, echo, pressure, ascend, heart>>

\* onPointerUp: holding.current = false
HeatPointerUp ==
  /\ audioReady
  /\ view = "heat"
  /\ heat' = [heat EXCEPT !.holding = FALSE]
  /\ UNCHANGED appVars
  /\ UNCHANGED <<pulse, tension, echo, pressure, ascend, heart>>

\* onPointerCancel: holding.current = false
HeatPointerCancel ==
  /\ audioReady
  /\ view = "heat"
  /\ heat' = [heat EXCEPT !.holding = FALSE]
  /\ UNCHANGED appVars
  /\ UNCHANGED <<pulse, tension, echo, pressure, ascend, heart>>

\* ------------------------------------------------------------------------
\* TensionLine
\* ------------------------------------------------------------------------
\* useState(rand(0.35, 0.8)); the frame effect schedules its callback
TensionMount(r) ==
  /\ EnterGame("tension")
  /\ view' = "tension"
  /\ tension' = [TensionInit EXCEPT !.target = rand(r, 350, 800), !.raf = TRUE]
  /\ UNCHANGED <<pulse, heat, echo, pressure, ascend, heart, stale>>

\* The frame callback: len rises 0.35/s while pulling, falls 0.25/s otherwise
TensionFrame(dt) ==
  /\ view = "tension"
  /\ tension.raf
  /\ tension' = [tension EXCEPT !.len =
                   IF tension.pulling THEN clamp(@ + (7 * dt) \div 20, 0, 1000)
                                      ELSE clamp(@ - dt \div 4, 0, 1000)]
  /\ UNCHANGED appVars
  /\ UNCHANGED <<pulse, heat, echo, pressure, ascend, heart>>

\* onDown
TensionOnDown ==
  /\ audioReady
  /\ view = "tension"
  /\ tension' = [tension EXCEPT !.pulling = TRUE]
  /\ UNCHANGED appVars
  /\ UNCHANGED <<pulse, heat, echo, pressure, ascend, heart>>

\* pts = Math.max(0, Math.round(12 - err * 40)), err = |len - target|
TensionPts(len, target) ==
  LET err == IF len >= target THEN len - target ELSE target - len
  IN Max(0, Round(12000 - 40 * err, 1000))

\* onUp (bound to onPointerUp and to onPointerCancel): it does not look at
\* pulling.current; a blip that throws ends it before setTarget.
TensionOnUp(r) ==
  /\ audioReady
  /\ view = "tension"
  /\ tension.score + TensionPts(tension.len, tension.target) <= MaxScore
  /\ tension' = [tension EXCEPT
                   !.pulling = FALSE,
                   !.score = @ + TensionPts(tension.len, tension.target),
                   !.target = IF toneReturns THEN rand(r, 300, 900) ELSE @]
  /\ UNCHANGED appVars
  /\ UNCHANGED <<pulse, heat, echo, pressure, ascend, heart>>

TensionPointerUp(r) == TensionOnUp(r)

TensionPointerCancel(r) == TensionOnUp(r)

\* ------------------------------------------------------------------------
\* Echo Orb
\* ------------------------------------------------------------------------
\* The listen effect (deps [phase, intervalMs]) with phase = listen:
\* setPulse(1), tone, vibrate, timer = setTimeout(..., 300). It runs at
\* mount and when the 700 ms timer returns the phase to listen; a tone that
\* throws is an error thrown by an effect.
EchoMount ==
  /\ EnterGame("echo")
  /\ IF toneReturns
       THEN /\ view' = "echo"
            /\ echo' = [EchoInit EXCEPT !.timer = 1, !.cues = 1]
            /\ UNCHANGED <<pulse, heat, tension, pressure, ascend, heart, stale>>
       ELSE CrashApp

\* The 300 ms timer: setPulse(0); timer = setTimeout(() => setPhase('tap'), intervalMs)
EchoCueTimer ==
  /\ view = "echo"
  /\ echo.timer = 1
  /\ echo' = [echo EXCEPT !.timer = 2]
  /\ UNCHANGED appVars
  /\ UNCHANGED <<pulse, heat, tension, pressure, ascend, heart>>

\* The intervalMs timer: setPhase('tap')
EchoListenTimer ==
  /\ view = "echo"
  /\ echo.timer = 2
  /\ echo' = [echo EXCEPT !.timer = 0, !.phase = "tap"]
  /\ UNCHANGED appVars
  /\ UNCHANGED <<pulse, heat, tension, pressure, ascend, heart>>

\* pts = Math.round((1 - clamp(|d - intervalMs| / 800, 0, 1)) * 12)
\* A faulty EchoPts, out of 10 points
EchoPtsOfTen(d, intervalMs) ==
  LET err == IF d >= intervalMs THEN d - intervalMs ELSE intervalMs - d
  IN Round(10 * acc(err, 800), 800)

\* The feedback of a scored cycle: blip(true) and a vibration if pts > 8,
\* else blip(false)
EchoFeedback(pts) == IF pts > 8 THEN "success" ELSE "failure"

EchoPts(d, intervalMs) ==
  LET err == IF d >= intervalMs THEN d - intervalMs ELSE intervalMs - d
  IN Round(12 * acc(err, 800), 800)

\* The time onTap pushes: the first tap of a cycle is the origin of its
\* clock, a later one comes `gap` ms after the previous.
EchoNow(taps, gap) == IF taps = <<>> THEN 0 ELSE taps[Len(taps)] + gap

\* onTap, `gap` ms after the previous tap
\* A faulty onTap, which ends the tap phase on the first press
EchoOnTapStateOnePress(e, gap) ==
  IF e.phase # "tap" THEN e
  ELSE [e EXCEPT !.taps = Append(e.taps, EchoNow(e.taps, gap)),
                 !.phase = "result", !.resultTimer = TRUE]

EchoOnTapState(e, gap) ==
  IF e.phase # "tap" THEN e
  ELSE LET taps1 == Append(e.taps, EchoNow(e.taps, gap))
       IN IF Len(taps1) # 2 THEN [e EXCEPT !.taps = taps1]
          ELSE LET d == IF taps1[2] >= taps1[1] THEN taps1[2] - taps1[1]
                                                ELSE taps1[1] - taps1[2]
                   scored == [e EXCEPT !.taps = taps1,
                                       !.score = @ + EchoPts(d, e.intervalMs)]
               IN IF toneReturns
                    THEN [scored EXCEPT !.phase = "result", !.resultTimer = TRUE]
                    ELSE scored

EchoOnTap(gap) ==
  /\ audioReady
  /\ view = "echo"
  /\ EchoOnTapState(echo, gap).score <= MaxScore
  /\ echo' = EchoOnTapState(echo, gap)
  /\ UNCHANGED appVars
  /\ UNCHANGED <<pulse, heat, tension, pressure, ascend, heart>>

\* The 700 ms timer of onTap, its component still mounted: taps.current = [],
\* setIntervalMs(rand(500, 1400)), setPhase('listen'); the listen effect runs again.
EchoResultTimer(r) ==
  /\ view = "echo"
  /\ echo.resultTimer
  /\ IF toneReturns
       THEN /\ echo' = [echo EXCEPT !.resultTimer = FALSE, !.taps = <<>>,
                                    !.intervalMs = rand(r, 500, 1400),
                                    !.phase = "listen", !.timer = 1, !.cues = 1]
            /\ UNCHANGED <<view, stale, pulse, heat, tension, pressure, ascend, heart>>
       ELSE CrashApp
  /\ UNCHANGED <<boot, audio, audioReady, state, palette, storage, sessions, settle>>

\* ------------------------------------------------------------------------
\* PressureCraft
\* ------------------------------------------------------------------------
PressureMount ==
  /\ EnterGame("pressure")
  /\ view' = "pressure"
  /\ pressure' = [PressureInit EXCEPT !.raf = TRUE]
  /\ UNCHANGED <<pulse, heat, tension, echo, ascend, heart, stale>>

\* The frame callback: fill moves 0.8/s; the zone moves at 0.2 + 0.04 * level
\* per second and turns round when b >= 1 or a <= 0.
\* A faulty frame, which turns the zone without clamping it
PressureLoopNoClamp(p, dt) ==
  LET move == (dt * (200 + 40 * p.level)) \div 1000
      a1 == p.a + p.dir * move
      b1 == p.b + p.dir * move
      turn == b1 >= 1000 \/ a1 <= 0
  IN [p EXCEPT !.fill = clamp(IF p.holding THEN @ + (4 * dt) \div 5
                                           ELSE @ - (4 * dt) \div 5, 0, 1000),
               !.dir = IF turn THEN -@ ELSE @,
               !.a = a1,
               !.b = b1]

PressureLoop(p, dt) ==
  LET move == (dt * (200 + 40 * p.level)) \div 1000
      a1 == p.a + p.dir * move
      b1 == p.b + p.dir * move
      turn == b1 >= 1000 \/ a1 <= 0
  IN [p EXCEPT !.fill = clamp(IF p.holding THEN @ + (4 * dt) \div 5
                                           ELSE @ - (4 * dt) \div 5, 0, 1000),
               !.dir = IF turn THEN -@ ELSE @,
               !.a = IF turn THEN clamp(a1, 0, 850) ELSE a1,
               !.b = IF turn THEN clamp(b1, 150, 1000) ELSE b1]

PressureFrame(dt) ==
  /\ view = "pressure"
  /\ pressure.raf
  /\ pressure' = PressureLoop(pressure, dt)
  /\ UNCHANGED appVars
  /\ UNCHANGED <<pulse, heat, tension, echo, ascend, heart>>

\* onPointerDown: setHolding(true)
PressurePointerDown ==
  /\ audioReady
  /\ view = "pressure"
  /\ pressure' = [pressure EXCEPT !.holding = TRUE]
  /\ UNCHANGED appVars
  /\ UNCHANGED <<pulse, heat, tension, echo, ascend, heart>>

\* The failure penalty of release: setScore(s => Math.max(0, s - 4))
PressurePenalty(s) == Max(0, s - 4)

\* release (bound to onPointerUp and to onPointerCancel): it does not look
\* at holding; the blip comes first in each branch, so one that throws
\* leaves only setHolding(false).
release(p) ==
  IF ~toneReturns THEN [p EXCEPT !.holding = FALSE]
  ELSE IF p.fill >= p.a /\ p.fill <= p.b
    THEN [p EXCEPT !.holding = FALSE, !.score = @ + 12, !.level = @ + 1, !.fill = 150]
    ELSE [p EXCEPT !.holding = FALSE, !.score = PressurePenalty(@), !.fill = 50]

PressureRelease ==
  /\ audioReady
  /\ view = "pressure"
  /\ release(pressure).score <= MaxScore
  /\ release(pressure).level <= MaxLevel
  /\ pressure' = release(pressure)
  /\ UNCHANGED appVars
  /\ UNCHANGED <<pulse, heat, tension, echo, ascend, heart>>

PressurePointerUp == PressureRelease

PressurePointerCancel == PressureRelease

\* ------------------------------------------------------------------------
\* Heartbeat Collective
\* ------------------------------------------------------------------------
RECURSIVE Gcd(_, _)
Gcd(a, b) == IF b = 0 THEN a ELSE Gcd(b, a % b)

\* Mount: the beat effect returns at once while phase is 'cal'
HeartMount ==
  /\ EnterGame("heart")
  /\ view' = "heart"
  /\ heart' = HeartInit
  /\ UNCHANGED <<pulse, heat, tension, echo, pressure, ascend, stale>>

\* candidate = clamp(60000 / avg, 50, 150) as a fraction in lowest terms,
\* avg the mean of the differences of consecutive taps, which is
\* (last - first) / (length - 1); 60000 / 0 is Infinity and clamps to 150.
HeartCandidate(taps) ==
  LET num == 60000 * (Len(taps) - 1)
      den == taps[Len(taps)] - taps[1]
      g == Gcd(num, den)
  IN IF den = 0 \/ num >= 150 * den THEN <<150, 1>>
     ELSE IF num <= 50 * den THEN <<50, 1>>
     ELSE <<num \div g, den \div g>>

\* The sync branch's points for a tap at performance.now() = now: with
\* interval = 60000 / (bpm || 60), d = now % interval, err = min(d, interval - d),
\* pts = round(10 * (1 - clamp(err / (interval / 2), 0, 1))); computed on
\* d * bpmNum, interval * bpmNum to stay in integers.
HeartPts(bpmNum, bpmDen, now) ==
  LET n == IF bpmNum = 0 THEN 60 ELSE bpmNum
      m == IF bpmNum = 0 THEN 60000 ELSE 60000 * bpmDen
      d == (now * n) % m
      err == Min(d, m - d)
  IN Round(10 * acc(2 * err, m), m)

\* The time onTap pushes while calibrating: the first tap is the origin of
\* the clock, a later one comes `gap` ms after the previous.
HeartNow(taps, gap) == IF taps = <<>> THEN 0 ELSE taps[Len(taps)] + gap

\* onTap: calibrating, `t` is the gap since the previous tap; in sync it is
\* performance.now(). A tone that throws ends the calibrating branch after
\* the push; in sync the blip follows setScore.
HeartOnTapState(h, t) ==
  IF h.phase = "cal"
    THEN LET taps1 == Append(h.taps, HeartNow(h.taps, t))
         IN IF toneReturns /\ Len(taps1) >= 6
              THEN [h EXCEPT !.bpmNum = HeartCandidate(taps1)[1],
                             !.bpmDen = HeartCandidate(taps1)[2],
                             !.phase = "sync", !.taps = <<>>,
                             !.beat = TRUE, !.pulseOff = TRUE]
              ELSE [h EXCEPT !.taps = taps1]
    ELSE [h EXCEPT !.score = @ + HeartPts(h.bpmNum, h.bpmDen, t)]

HeartOnTap(t) ==
  /\ audioReady
  /\ view = "heart"
  /\ HeartOnTapState(heart, t).score <= MaxScore
  /\ Len(HeartOnTapState(heart, t).taps) <= MaxTaps
  /\ heart' = HeartOnTapState(heart, t)
  /\ UNCHANGED appVars
  /\ UNCHANGED <<pulse, heat, tension, echo, pressure, ascend>>

\* The beat timer's tick: setPulse(1), tone, vibrate,
\* id = setTimeout(() => setPulse(0), 180); id = setTimeout(tick, interval).
\* interval >= 400 ms, so the previous 180 ms timer has fired before it.
HeartBeat ==
  /\ view = "heart"
  /\ heart.beat
  /\ ~heart.pulseOff
  /\ heart' = IF toneReturns THEN [heart EXCEPT !.pulseOff = TRUE]
                             ELSE [heart EXCEPT !.beat = FALSE]
  /\ UNCHANGED appVars
  /\ UNCHANGED <<pulse, heat, tension, echo, pressure, ascend>>

\* The 180 ms timer, its component still mounted: setPulse(0)
HeartPulseOff ==
  /\ view = "heart"
  /\ heart.pulseOff
  /\ heart' = [heart EXCEPT !.pulseOff = FALSE]
  /\ UNCHANGED appVars
  /\ UNCHANGED <<pulse, heat, tension, echo, pressure, ascend>>

\* ------------------------------------------------------------------------
\* Ascend Light
\* ------------------------------------------------------------------------
RECURSIVE SqrtBetween(_, _, _)
SqrtBetween(n, lo, hi) ==
  IF lo >= hi THEN lo
  ELSE LET mid == (lo + hi + 1) \div 2
       IN IF mid * mid <= n THEN SqrtBetween(n, mid, hi)
                            ELSE SqrtBetween(n, lo, mid - 1)

\* Math.hypot(dx, dy), rounded down to a tenth of a px
hypot(dx, dy) == SqrtBetween(dx * dx + dy * dy, 0, 16384)

\* Mount: zones[i].y = rand(120, H - 120); the frame effect schedules its callback
AscendMount(rs) ==
  /\ EnterGame("ascend")
  /\ view' = "ascend"
  /\ ascend' = [AscendInit EXCEPT
                  !.zy = [i \in 1..5 |-> rand(rs[i], 1200, 10 * (CanvasH - 120))],
                  !.raf = TRUE]
  /\ UNCHANGED <<pulse, heat, tension, echo, pressure, heart, stale>>

\* Zones i..5 of "zones & score": each scrolls left at 120 px/s, wraps with
\* a new y (sample r; at most one zone wraps in a frame of less than
\* 1.8 s), lifts the ship by 240 * boost per second and scores a point
\* when alive and boost > 0.8.
RECURSIVE AscendZones(_, _, _, _)
AscendZones(w, i, dt, r) ==
  IF i > 5 THEN w
  ELSE LET x1 == w.zx[i] - (12 * dt) \div 10
           wrap == x1 < -600
           zx1 == IF wrap THEN x1 + 10 * 5 * 220 ELSE x1
           zy1 == IF wrap THEN rand(r, 1200, 10 * (CanvasH - 120)) ELSE w.zy[i]
           dx == (35 * CanvasW) \div 10 - zx1
           dy == w.y - zy1
           boost == clamp(1000 - (5 * hypot(dx, dy)) \div 3, 0, 1000)
       IN AscendZones([w EXCEPT !.zx[i] = zx1, !.zy[i] = zy1,
                                !.vy = @ - (24 * boost * dt) \div 10000,
                                !.score = IF w.alive /\ boost > 800 THEN @ + 1 ELSE @],
                      i + 1, dt, r)

\* The frame callback: dt ms since the last frame, chirp whether
\* Math.random() < 0.2, r the sample of a wrapping zone. The callback is
\* rescheduled while the `running` its closure captured is true, which it
\* always is; a tone that throws ends the callback before y is updated.
\* A faulty frame, in which the craft is alive whenever it is off the bounds
AscendLoopRevive(w, dt, chirp, r) ==
  LET vy1 == IF ~w.alive THEN w.vy + (4 * dt) \div 10
             ELSE w.vy + (16 * dt) \div 10 - (IF w.press THEN (36 * dt) \div 10 ELSE 0)
      y1 == w.y + (vy1 * dt) \div 1000
      top == y1 < 100
      bottom == ~top /\ y1 > 10 * (CanvasH - 10)
      moved == [w EXCEPT !.t = @ + dt,
                         !.y = IF top THEN 100 ELSE IF bottom THEN 10 * (CanvasH - 10) ELSE y1,
                         !.vy = IF top \/ bottom THEN 0 ELSE vy1,
                         !.alive = ~top /\ ~bottom]
  IN AscendZones(moved, 1, dt, r)

AscendLoop(w, dt, chirp, r) ==
  LET vy1 == IF ~w.alive THEN w.vy + (4 * dt) \div 10
             ELSE w.vy + (16 * dt) \div 10 - (IF w.press THEN (36 * dt) \div 10 ELSE 0)
      thrown == w.alive /\ w.press /\ chirp /\ ~toneReturns
      y1 == w.y + (vy1 * dt) \div 1000
      top == y1 < 100
      bottom == ~top /\ y1 > 10 * (CanvasH - 10)
      moved == [w EXCEPT !.t = @ + dt,
                         !.y = IF top THEN 100 ELSE IF bottom THEN 10 * (CanvasH - 10) ELSE y1,
                         !.vy = IF top \/ bottom THEN 0 ELSE vy1,
                         !.alive = @ /\ ~top /\ ~bottom]
  IN IF thrown THEN [w EXCEPT !.t = @ + dt, !.vy = vy1, !.raf = FALSE]
     ELSE AscendZones(moved, 1, dt, r)

AscendFrame(dt, chirp, r) ==
  /\ view = "ascend"
  /\ ascend.raf
  /\ ascend.t + dt <= MaxAscendFrames * dt
  /\ AscendLoop(ascend, dt, chirp, r).score <= MaxScore
  /\ ascend' = AscendLoop(ascend, dt, chirp, r)
  /\ UNCHANGED appVars
  /\ UNCHANGED <<pulse, heat, tension, echo, pressure, heart>>

\* onPointerDown: pressRef.current = true; vibrate(10)
AscendPointerDown ==
  /\ audioReady
  /\ view = "ascend"
  /\ ascend' = [ascend EXCEPT !.press = TRUE]
  /\ UNCHANGED appVars
  /\ UNCHANGED <<pulse, heat, tension, echo, pressure, heart>>

\* onPointerUp: pressRef.current = false
AscendPointerUp ==
  /\ audioReady
  /\ view = "ascend"
  /\ ascend' = [ascend EXCEPT !.press = FALSE]
  /\ UNCHANGED appVars
  /\ UNCHANGED <<pulse, heat, tension, echo, pressure, heart>>

\* onPointerCancel: pressRef.current = false
AscendPointerCancel ==
  /\ audioReady
  /\ view = "ascend"
  /\ ascend' = [ascend EXCEPT !.press = FALSE]
  /\ UNCHANGED appVars
  /\ UNCHANGED <<pulse, heat, tension, echo, pressure, heart>>

\* ------------------------------------------------------------------------
\* Callbacks of unmounted components
\* ------------------------------------------------------------------------
\* GameEchoOrb's 700 ms timer after the unmount: taps.current = [] on the
\* discarded ref; setIntervalMs and setPhase act on an unmounted component.
StaleEchoResult ==
  /\ stale.echoResult > 0
  /\ stale' = [stale EXCEPT !.echoResult = @ - 1, !.fired = @ \cup {"echoResult"}]
  /\ UNCHANGED <<boot, audio, audioReady, view, state, palette, storage, sessions, settle>>
  /\ UNCHANGED gameVars

\* GameHeartbeat's 180 ms timer after the unmount: setPulse(0)
StaleHeartPulseOff ==
  /\ stale.heartPulseOff > 0
  /\ stale' = [stale EXCEPT !.heartPulseOff = @ - 1, !.fired = @ \cup {"heartPulseOff"}]
  /\ UNCHANGED <<boot, audio, audioReady, view, state, palette, storage, sessions, settle>>
  /\ UNCHANGED gameVars

\* GameAscendLight's frame callback after the unmount: it runs on the
\* discarded world and, its captured `running` being true, schedules itself again.
StaleAscendFrame ==
  /\ stale.ascendLoop > 0
  /\ stale' = [stale EXCEPT !.fired = @ \cup {"ascendLoop"}]
  /\ UNCHANGED <<boot, audio, audioReady, view, state, palette, storage, sessions, settle>>
  /\ UNCHANGED gameVars

\* ------------------------------------------------------------------------
\* Inputs the game sessions are explored with
\* ------------------------------------------------------------------------
\* Samples of Math.random(), in thousandths
PulseRand == {0, 500}
HeatMinRand == {0}
HeatMaxRand == {900}
TensionRand == {500}
EchoRand == {0, 500}
AscendRand == {450}

\* Milliseconds between two frames
HeatGaps == {1000}
TensionGaps == {2000}
PressureGaps == {1000}
AscendGaps == {600}

\* Milliseconds from the last beat to a tap (PulseLink), between two taps
\* (Echo Orb, Heartbeat calibration), and performance.now() at a tap
\* (Heartbeat sync)
PulseOffsets == {0, 150, 300}
EchoGaps == {300, 800}
HeartGaps == {0, 1500}
HeartNows == {0, 150, 300}

\* ------------------------------------------------------------------------
\* The application after its first render and mount effects
\* ------------------------------------------------------------------------
\* The first render throws on a loaded value without a palette to read
\* (null) or without `best` (the menu reads state.best[key]).
RenderThrows(v) == v.t = "null" \/ "best" \notin v.has

\* The mount effects: setState({...state, palette: palette.key}); saveState
Mounted(v) ==
  [v EXCEPT !.palette = FindPalette(IF "palette" \in v.has THEN v.palette ELSE ""),
            !.has = @ \cup {"palette"}]

AppInit(doc) ==
  /\ audioReady = FALSE
  /\ sessions = 0
  /\ settle = SettleInit
  /\ stale = StaleInit
  /\ pulse = PulseInit
  /\ heat = HeatInit
  /\ tension = TensionInit
  /\ echo = EchoInit
  /\ pressure = PressureInit
  /\ ascend = AscendInit
  /\ heart = HeartInit
  /\ IF RenderThrows(loadState(doc))
       THEN /\ view = "crashed"
            /\ state = loadState(doc)
            /\ palette = PALETTES[1]
            /\ storage = doc
       ELSE /\ view = "menu"
            /\ state = Mounted(loadState(doc))
            /\ palette = Mounted(loadState(doc)).palette
            /\ storage = saveState(doc, Mounted(loadState(doc)))

\* ------------------------------------------------------------------------
\* Game sessions: a first run of the application (nothing persisted), any
\* tone backend, the seven games
\* ------------------------------------------------------------------------
Init ==
  /\ audio \in AudioModes
  /\ boot = NoDoc
  /\ AppInit(NoDoc)

Next ==
  \/ StartAudio
  \/ \E v \in {"store", "about"} : OpenView(v)
  \/ Back
  \/ ExitAndSave
  \/ \E r \in PulseRand : PulseMount(r)
  \/ PulseFrame
  \/ PulseBeat
  \/ \E off \in PulseOffsets : PulseOnTap(off)
  \/ HeatMount
  \/ \E dt \in HeatGaps : \E r1, r3 \in HeatMinRand : \E r2, r4 \in HeatMaxRand :
       HeatFrame(dt, r1, r2, r3, r4)
  \/ HeatPointerDown
  \/ HeatPointerUp
  \/ HeatPointerCancel
  \/ \E r \in TensionRand : TensionMount(r)
  \/ \E dt \in TensionGaps : TensionFrame(dt)
  \/ TensionOnDown
  \/ \E r \in TensionRand : TensionPointerUp(r)
  \/ \E r \in TensionRand : TensionPointerCancel(r)
  \/ EchoMount
  \/ EchoCueTimer
  \/ EchoListenTimer
  \/ \E gap \in EchoGaps : EchoOnTap(gap)
  \/ \E r \in EchoRand : EchoResultTimer(r)
  \/ PressureMount
  \/ \E dt \in PressureGaps : PressureFrame(dt)
  \/ PressurePointerDown
  \/ PressurePointerUp
  \/ PressurePointerCancel
  \/ \E rs \in [1..5 -> AscendRand] : AscendMount(rs)
  \/ \E dt \in AscendGaps : \E chirp \in BOOLEAN : \E r \in AscendRand : AscendFrame(dt, chirp, r)
  \/ AscendPointerDown
  \/ AscendPointerUp
  \/ AscendPointerCancel
  \/ HeartMount
  \/ \E gap \in HeartGaps : heart.phase = "cal" /\ HeartOnTap(gap)
  \/ \E now \in HeartNows : heart.phase = "sync" /\ HeartOnTap(now)
  \/ HeartBeat
  \/ HeartPulseOff
  \/ StaleEchoResult
  \/ StaleHeartPulseOff
  \/ StaleAscendFrame

Spec == Init /\ [][Next]_vars

\* ------------------------------------------------------------------------
\* The progression store: App's award, spend and onExit called with any
\* argument, the shop and the palette selector, over a persisted record
\* ------------------------------------------------------------------------
\* The palette selector of the TopBar: setPalette; the palette effect
\* copies the key into the record and saves it.
SelectPalette(k) ==
  /\ audioReady
  /\ view # "crashed"
  /\ palette' = FindPalette(k)
  /\ state' = [state EXCEPT !.palette = FindPalette(k)]
  /\ storage' = saveState(storage, state')
  /\ UNCHANGED <<boot, audio, audioReady, view, sessions, settle, stale>>
  /\ UNCHANGED gameVars

\* The shop's Buy button (disabled when the palette is equipped or
\* tokens < 20): spend(20); setPalette(p); blip; vibrate
Buy(k) ==
  /\ audioReady
  /\ view = "store"
  /\ palette # k
  /\ ~(state.tokens < 20)
  /\ palette' = k
  /\ state' = [spend(state, 20) EXCEPT !.palette = k]
  /\ storage' = saveState(storage, state')
  /\ UNCHANGED <<boot, audio, audioReady, view, sessions, settle, stale>>
  /\ UNCHANGED gameVars

\* award(n); the save effect follows the change of the record
AwardCall(n) ==
  /\ audioReady
  /\ view # "crashed"
  /\ award(state, n).tokens <= MaxTokens
  /\ state' = award(state, n)
  /\ storage' = saveState(storage, state')
  /\ UNCHANGED <<boot, audio, audioReady, view, palette, sessions, settle, stale>>
  /\ UNCHANGED gameVars

\* spend(n); the save effect follows the change of the record
SpendCall(n) ==
  /\ audioReady
  /\ view # "crashed"
  /\ state' = spend(state, n)
  /\ storage' = saveState(storage, state')
  /\ UNCHANGED <<boot, audio, audioReady, view, palette, sessions, settle, stale>>
  /\ UNCHANGED gameVars

\* onExit(gscore): outside a game it returns at once; in a game it records
\* the best score and returns to the menu, which unmounts the game
OnExitCall(gscore) ==
  /\ audioReady
  /\ view # "crashed"
  /\ state' = onExitState(view, state, gscore)
  /\ view' = onExitView(view)
  /\ storage' = saveState(storage, state')
  /\ IF InGame
       THEN /\ settle' = [settle EXCEPT !.onExit = @ + 1, !.score = gscore]
            /\ Teardown
       ELSE UNCHANGED <<settle, stale, pulse, heat, tension, echo, pressure, ascend, heart>>
  /\ UNCHANGED <<boot, audio, audioReady, palette, sessions>>

\* Arguments the store is called with
AwardAmounts == {-4, 0, 10}
SpendAmounts == {20}
ScoreSamples == {3, 9}
ShopPalettes == {"molten", "reef"}

\* localStorage content the application itself leaves behind: nothing, a
\* record it saved; or a storage whose getItem / setItem throw
StoredTokens == {0, 25}
StoredBests == {ZeroBest, [ZeroBest EXCEPT !["pulse"] = 7]}
SavedDocs ==
  {[kind |-> "json", val |-> [DefaultState EXCEPT !.tokens = tk, !.best = b]] :
     tk \in StoredTokens, b \in StoredBests}
ProgramDocs == {NoDoc, [kind |-> "throws", val |-> DefaultState]} \cup SavedDocs

\* Other content: the empty string, text that is not JSON, and JSON text of
\* null, of {}, of a record without `best`, of a record whose `best` has
\* only the key pulse
CorruptDocs ==
  {[kind |-> "empty", val |-> DefaultState],
   [kind |-> "notjson", val |-> DefaultState],
   [kind |-> "json", val |-> [DefaultState EXCEPT !.t = "null", !.has = {}, !.keys = {}]],
   [kind |-> "json", val |-> [DefaultState EXCEPT !.has = {}, !.keys = {}]],
   [kind |-> "json", val |-> [DefaultState EXCEPT !.has = {"tokens", "palette"}, !.keys = {}]],
   [kind |-> "json", val |-> [DefaultState EXCEPT !.tokens = 25, !.keys = {"pulse"}]]}

InitStore ==
  /\ audio = "ok"
  /\ boot \in ProgramDocs
  /\ AppInit(boot)

NextStore ==
  \/ StartAudio
  \/ \E v \in {"store", "about"} : OpenView(v)
  \/ Back
  \/ \E r \in PulseRand : PulseMount(r)
  \/ HeatMount
  \/ \E r \in TensionRand : TensionMount(r)
  \/ EchoMount
  \/ PressureMount
  \/ \E rs \in [1..5 -> AscendRand] : AscendMount(rs)
  \/ HeartMount
  \/ \E k \in ShopPalettes : SelectPalette(k)
  \/ \E k \in ShopPalettes : Buy(k)
  \/ \E n \in AwardAmounts : AwardCall(n)
  \/ \E n \in SpendAmounts : SpendCall(n)
  \/ \E gscore \in ScoreSamples : OnExitCall(gscore)

SpecStore == InitStore /\ [][NextStore]_vars

\* The same store started on any localStorage content
InitLoad ==
  /\ audio = "ok"
  /\ boot \in ProgramDocs \cup CorruptDocs
  /\ AppInit(boot)

SpecLoad == InitLoad /\ [][NextStore]_vars

\* ------------------------------------------------------------------------
\* Properties
\* ------------------------------------------------------------------------
\* C1: in each of the seven games, whatever frames, presses, releases,
\* timers and penalties have happened, the session score is an integer >= 0.
C1_ScoreNonNegative == \A g \in GameKeys : Score(g) \in Nat

\* HeatBloom has overheated with a score below the penalty (the overheat
\* branch alone sets this band), and the score stands at 0.
C1_PenaltyAtZero ==
  /\ view = "heat"
  /\ \E r3 \in HeatMinRand : heat.min = rand(r3, 350, 550)
  /\ \E r4 \in HeatMaxRand : heat.max = rand(r4, 600, 850)
  /\ heat.score = 0

\* C2: whenever the player has left a running game and is back at the menu,
\* by Exit & Save or by Back, onExit and award have each been called exactly
\* once for that session.
C2_SettledOnceOnLeave ==
  (view = "menu" /\ sessions > 0) => (settle.onExit = 1 /\ settle.award = 1)

\* C3: no timer of a destroyed session (PulseLink's beat, Heartbeat's beat
\* and pulse-off, Echo Orb's listen and 700 ms result timers) runs after
\* the session has been discarded.
C3_NoTimerOutlivesSession ==
  stale.fired \cap {"echoResult", "heartPulseOff"} = {}

\* C4: after a session is exited no frame callback of that session runs
\* again, Ascend Light's self-rescheduling loop included.
C4_NoFrameAfterExit == "ascendLoop" \notin stale.fired

C6_TokensNonNegative ==
  /\ state.tokens \in Nat
  /\ \A n \in SpendAmounts : spend(state, n).tokens \in Nat
  /\ \A n \in AwardAmounts : award(state, n).tokens >= state.tokens

\* A stored balance of 25 has been spent down to 0: since awards and
\* spends move it by multiples of 10 and 20, only a spend larger than the
\* balance ends at 0.
C6_SpentToZero ==
  /\ view # "crashed"
  /\ boot.kind = "json"
  /\ boot.val.tokens = 25
  /\ state.tokens = 0

\* C7: a spend(n) made with tokens < n is refused: the progression record
\* is after the call exactly what it was before.
C7_InsufficientSpendRefused ==
  [][\A n \in SpendAmounts : (SpendCall(n) /\ state.tokens < n) => state' = state]_vars

\* C8: when localStorage holds nothing, cannot be read, or holds text that
\* is not JSON of a record of the documented shape, the application starts,
\* without an error, on exactly the default record.
C8_CorruptLoadsDefault ==
  (~audioReady /\ (boot.kind # "json" \/ ~WellShaped(boot.val))) =>
    (view # "crashed" /\ state = DefaultState)

\* C9: whatever the tone backend does, the frame loop of the game in view
\* stays scheduled (HeatBloom's loop, which plays its feedback tones).
C9_LoopSurvivesBackend == view = "heat" => heat.raf

\* C10: TensionLine's release logic runs only for a release or cancel that
\* ends a press: its score changes only in a step that starts with the
\* thread being pulled.
C10_ReleaseOnlyAfterPress ==
  [][(view = "tension" /\ view' = "tension" /\ tension'.score # tension.score)
       => tension.pulling]_vars

\* C11: the delta-time a frame applies is within [0, 0.1] s however long
\* the gap between two frames: a frame of TensionLine, whose len moves at
\* 0.35/s or 0.25/s, moves it by at most 0.035.
C11_DtClamped ==
  [][(view = "tension" /\ view' = "tension" /\ tension'.score = tension.score)
       => /\ tension'.len - tension.len <= 35
          /\ tension.len - tension'.len <= 35]_vars

\* Frame gaps, in ms, a frame is tried with from every reachable state
C12_Gaps == {0, 16, 100, 1000, 60000}

\* C12: HeatBloom's heat and bloom, TensionLine's len and PressureCraft's
\* fill are within [0, 1] in every reachable state, and a frame of any of
\* the gaps above, applied to any reachable state, leaves them there.
C12_PhysicalInRange ==
  /\ heat.heat \in 0..1000
  /\ heat.bloom \in 0..1000
  /\ tension.len \in 0..1000
  /\ pressure.fill \in 0..1000
  /\ \A dt \in C12_Gaps :
       /\ \A r1, r3 \in HeatMinRand : \A r2, r4 \in HeatMaxRand :
            /\ HeatLoop(heat, dt, r1, r2, r3, r4).heat \in 0..1000
            /\ HeatLoop(heat, dt, r1, r2, r3, r4).bloom \in 0..1000
       /\ PressureLoop(pressure, dt).fill \in 0..1000

\* PressureCraft's fill, held for two frames of 0.8 each, stands at the
\* ceiling.
C12_FillAtCeiling ==
  /\ view = "pressure"
  /\ pressure.holding
  /\ pressure.fill = 1000

\* C13: the application never fails on a write to the store, and whenever
\* the store takes writes, the record it holds after a mutation (award,
\* spend, best update, palette change) reads back as the record in memory;
\* a store that refuses writes keeps what it held and the record in memory
\* moves on without it.
C13_PersistedIsMemory ==
  /\ view # "crashed"
  /\ storage.kind # "throws" => (storage.kind = "json" /\ loadState(storage) = state)
  /\ storage.kind = "throws" => storage = boot

\* An award of 10 and a change of palette have both reached the store.
C13_AwardAndPaletteSaved ==
  /\ storage.kind = "json"
  /\ state.tokens = 10
  /\ state.palette = FindPalette("molten")
  /\ storage.val.tokens = 10
  /\ storage.val.palette = FindPalette("molten")

\* Tolerances, errors and times (ms) the accuracy and the points are tried
\* with
C14_Tols == {1, 2, 400, 800}
C14_Errs == {0, 1, 2, 399, 400, 401, 800, 801, 5000}
C14_Times == {0, 1, 150, 300, 357, 400, 500, 714, 800, 1400, 1600, 5000}

\* C14: the accuracy 1 - clamp(err / tol, 0, 1) is within [0, 1], does not
\* increase with err, is 1 at err = 0 and 0 from err = tol on; the points
\* of one tap are an integer in 0..10 in PulseLink and Heartbeat and in
\* 0..12 in Echo Orb, whatever the time of the tap (checked in every state
\* of these three games).
C14_AccuracyAndPoints ==
  /\ (view \in {"pulse", "echo", "heart"}) =>
       \A tol \in C14_Tols : \A e1, e2 \in C14_Errs :
         /\ acc(e1, tol) \in 0..tol
         /\ (e1 <= e2) => (acc(e1, tol) >= acc(e2, tol))
         /\ acc(0, tol) = tol
         /\ (e1 >= tol) => (acc(e1, tol) = 0)
         /\ Round(10 * acc(e1, tol), tol) \in 0..10
         /\ Round(12 * acc(e1, tol), tol) \in 0..12
  /\ (view = "pulse") => \A t \in C14_Times : PulseGain(pulse.bpm, t) \in 0..10
  /\ (view = "echo") => \A t \in C14_Times : EchoPts(t, echo.intervalMs) \in 0..12
  /\ (view = "heart") =>
       \A t \in C14_Times : HeartPts(heart.bpmNum, heart.bpmDen, t) \in 0..10

\* Echo Orb has scored a reproduction of the cue interval with the full 12
\* points.
C14_EchoFullPoints ==
  /\ view = "echo"
  /\ echo.phase = "result"
  /\ echo.score = 12

\* C15: a pointer handler only records the input, and what follows from it
\* is applied in a frame: every step of PressureCraft that changes its
\* fill, score or level is a step of the frame loop.
C15_InputAppliedInTick ==
  [][(/\ view = "pressure"
      /\ view' = "pressure"
      /\ \/ pressure'.fill # pressure.fill
         \/ pressure'.score # pressure.score
         \/ pressure'.level # pressure.level)
       => \E dt \in PressureGaps : PressureFrame(dt)]_vars

\* round(10 * (1 - clamp(err / half, 0, 1))): the integer p with
\* p - 1/2 <= 10 * (1 - clamp(err / half, 0, 1)) < p + 1/2
C16_Points(err, half) ==
  CHOOSE p \in 0..10 :
    /\ (2 * p - 1) * half <= 20 * (half - Min(err, half))
    /\ 20 * (half - Min(err, half)) < (2 * p + 1) * half

\* Tempi of PulseLink (72..128 BPM) and offsets (ms) the points are tried with
C16_Bpms == {72, 75, 80, 84, 100, 120, 125, 128}
C16_Offsets == {240, 250, 375, 400, 600, 750, 800}

\* The distance of x to the nearest multiple of m
C16_Nearest(x, m) == Min(x % m, m - (x % m))

\* C16: a press of PulseLink, off ms after the last beat, adds
\* round(10 * (1 - clamp(err / (interval / 2), 0, 1))) with interval =
\* 60000 / BPM and err the distance of off to the nearest multiple of the
\* interval: 10 on a beat, 0 at half an interval. A press of Heartbeat's
\* sync phase adds the same with the time of the press taken modulo the
\* interval. (Times are scaled by the BPM, so that the interval is 60000.)
C16_PressScores ==
  [][/\ (view = "pulse") =>
          \A bpm \in C16_Bpms : \A off \in PulseOffsets \cup C16_Offsets :
            /\ PulseGain(bpm, off) = C16_Points(C16_Nearest(off * bpm, 60000), 30000)
            /\ ((off * bpm) % 60000 = 0) => (PulseGain(bpm, off) = 10)
            /\ ((off * bpm) % 60000 = 30000) => (PulseGain(bpm, off) = 0)
     /\ \A off \in PulseOffsets :
          PulseOnTap(off) =>
            (pulse'.score = pulse.score
                            + C16_Points(C16_Nearest(off * pulse.bpm, 60000), 30000))
     /\ \A now \in HeartNows :
          (heart.phase = "sync" /\ HeartOnTap(now)) =>
            (heart'.score = heart.score
                            + C16_Points(C16_Nearest(now * heart.bpmNum, 60000 * heart.bpmDen),
                                         30000 * heart.bpmDen))]_vars

\* PulseLink at 72 BPM holds the 10 points of a press on the beat.
C16_OnBeatPress ==
  /\ view = "pulse"
  /\ pulse.bpm = 72
  /\ pulse.score = 10

\* C17: a release of TensionLine adds max(0, round(12 - 40 * |len - target|))
\* to the score and replaces the target by a new draw from [0.3, 0.9]
\* whatever the outcome; the target is within [0.3, 0.9] while the game is
\* in view.
C17_ReleaseScoresAndRetargets ==
  [][/\ (view = "tension") => (tension.target \in 300..900)
     /\ \A r \in TensionRand :
          TensionOnUp(r) =>
            /\ tension'.score = tension.score + TensionPts(tension.len, tension.target)
            /\ tension'.target = rand(r, 300, 900)]_vars

\* C18: HeatBloom's band has its min within [0.3, 0.5] and its max within
\* [0.6, 0.8], at the start and after every re-randomization.
C18_BandInRange ==
  (view = "heat") => (heat.min \in 300..500 /\ heat.max \in 600..800)

\* Frame gaps (ms) and the length (ms) of the runs of HeatBloom with the
\* button held
C19_Gaps == {100, 200, 500, 1000}
C19_Horizon == 4000

\* HeatBloom after n more frames of gap dt, for as long as the button is
\* held, starting from h
RECURSIVE C19_Run(_, _, _)
C19_Run(h, dt, n) ==
  IF n = 0 \/ ~h.holding THEN h
  ELSE LET r1 == CHOOSE r \in HeatMinRand : TRUE
           r2 == CHOOSE r \in HeatMaxRand : TRUE
       IN C19_Run(HeatLoop(h, dt, r1, r2, r1, r2), dt, n - 1)

\* The same, with the button pressed in h and held all along
C19_Held(h, dt, n) == C19_Run([h EXCEPT !.holding = TRUE], dt, n)

\* HeatBloom as mounted: heat 0, bloom 0, band [0.45, 0.65], score 0
C19_Fresh ==
  /\ view = "heat"
  /\ heat.heat = 0 /\ heat.bloom = 0 /\ heat.score = 0
  /\ heat.min = 450 /\ heat.max = 650

\* C19 as stated: from the mounted HeatBloom with the button held all
\* along, the run reaches a success (score 10) for some gap between frames.
C19_HeldReachesSuccess ==
  C19_Fresh =>
    \E dt \in C19_Gaps : \E n \in 0..(C19_Horizon \div dt) :
      C19_Held(heat, dt, n).score >= 10

\* C19, amended: from the mounted HeatBloom with the button held all along,
\* whatever the gap between frames, heat rises into the band, bloom grows by
\* 0.6 * dt in every frame that ends in the band, no frame is a success
\* (the score stays 0 and bloom stays below 1), and a frame brings heat to
\* 0.995 or more: the run overheats.
C19_HeldOverheats ==
  C19_Fresh =>
    \A dt \in C19_Gaps :
      /\ \E n \in 1..(C19_Horizon \div dt) :
           /\ C19_Held(heat, dt, n).heat \in 450..650
           /\ C19_Held(heat, dt, n).bloom = C19_Held(heat, dt, n - 1).bloom + (3 * dt) \div 5
      /\ \A n \in 0..(C19_Horizon \div dt) :
           /\ C19_Held(heat, dt, n).score = 0
           /\ C19_Held(heat, dt, n).bloom < 1000
      /\ \E n \in 1..(C19_Horizon \div dt) :
           HeatStep(C19_Held(heat, dt, n - 1).heat, TRUE, dt) >= 995

\* HeatBloom, the button still held, has overheated in its first round: the
\* score is 0, heat is back at 0.3 and the band is the one of an overheat.
C19_HeldOverheated ==
  /\ view = "heat"
  /\ heat.holding
  /\ heat.score = 0
  /\ heat.heat = 300
  /\ heat.bloom = 0
  /\ \E r3 \in HeatMinRand : heat.min = rand(r3, 350, 550)

\* C20: a frame of HeatBloom that brings heat to 0.995 or more is an
\* overheat, which sets the score to max(0, score - 3), heat to 0.3 and
\* bloom to 0 in the same frame, so heat is below 0.995 after every frame;
\* and no frame is both a success (+10) and an overheat.
C20_OverheatResets ==
  [][\A dt \in HeatGaps : \A r1, r3 \in HeatMinRand : \A r2, r4 \in HeatMaxRand :
       HeatFrame(dt, r1, r2, r3, r4) =>
         /\ heat'.heat < 995
         /\ (HeatStep(heat.heat, heat.holding, dt) >= 995) =>
              /\ heat'.score = Max(0, heat.score - 3)
              /\ heat'.heat = 300
              /\ heat'.bloom = 0]_vars

\* C21: while Echo Orb is in view its phase moves only along listen ->
\* tap -> result -> listen: listen holds a pending cue timer and an empty
\* tap list and leaves for tap when its second timer fires, tap leaves for
\* result on the second press only, result holds its pending delay and
\* returns to listen with an empty tap list; intervalMs is within
\* [500, 1400] ms in every state, the first cycle included.
C21_EchoCycle ==
  [][/\ (view = "echo") =>
          /\ echo.intervalMs \in 500..1400
          /\ (echo.phase = "listen") => (echo.timer \in {1, 2} /\ echo.taps = <<>>)
          /\ (echo.phase = "tap") => (Len(echo.taps) < 2)
          /\ (echo.phase = "result") => echo.resultTimer
     /\ (view = "echo" /\ view' = "echo" /\ echo'.phase # echo.phase) =>
          /\ <<echo.phase, echo'.phase>> \in
               {<<"listen", "tap">>, <<"tap", "result">>, <<"result", "listen">>}
          /\ (echo.phase = "listen") => EchoListenTimer
          /\ (echo.phase = "tap") => (Len(echo.taps) = 1 /\ Len(echo'.taps) = 2)
          /\ (echo.phase = "result") =>
               /\ echo'.taps = <<>>
               /\ echo'.intervalMs \in 500..1400
               /\ echo'.timer = 1]_vars

\* Echo Orb is back in listen after a full cycle, with a new interval and
\* the points of the cycle.
C21_SecondCycle ==
  /\ view = "echo"
  /\ echo.phase = "listen"
  /\ echo.taps = <<>>
  /\ echo.intervalMs = 950
  /\ echo.score > 0

\* round(12 * (1 - clamp(|d - intervalMs| / 800, 0, 1))): the integer p with
\* p - 1/2 <= 12 * (1 - clamp(|d - intervalMs| / 800, 0, 1)) < p + 1/2
C22_Points(d, intervalMs) ==
  LET err == IF d >= intervalMs THEN d - intervalMs ELSE intervalMs - d
  IN CHOOSE p \in 0..12 :
       /\ (2 * p - 1) * 800 <= 24 * (800 - Min(err, 800))
       /\ 24 * (800 - Min(err, 800)) < (2 * p + 1) * 800

\* C22: in Echo Orb the score changes only on the second press of a tap
\* phase, which ends the phase (once per cycle), by
\* round(12 * (1 - clamp(|d - intervalMs| / 800, 0, 1))) with d the gap
\* between the two presses: 12 and the success feedback when d equals
\* intervalMs, the success feedback exactly for more than 8 points; a press
\* in listen or result changes nothing.
C22_EchoScoring ==
  [][(view = "echo" /\ view' = "echo") =>
       /\ (echo'.score # echo.score) =>
            /\ echo.phase = "tap" /\ Len(echo.taps) = 1
            /\ echo'.phase = "result"
       /\ \A gap \in EchoGaps :
            EchoOnTap(gap) =>
              /\ (echo.phase # "tap") => (echo' = echo)
              /\ (echo.phase = "tap" /\ Len(echo.taps) = 0) =>
                   (echo'.score = echo.score /\ echo'.phase = "tap")
              /\ (echo.phase = "tap" /\ Len(echo.taps) = 1) =>
                   /\ echo'.score = echo.score + C22_Points(gap, echo.intervalMs)
                   /\ (gap = echo.intervalMs) =>
                        /\ echo'.score = echo.score + 12
                        /\ EchoFeedback(EchoPts(gap, echo.intervalMs)) = "success"
                   /\ (EchoFeedback(EchoPts(gap, echo.intervalMs)) = "success")
                        <=> (C22_Points(gap, echo.intervalMs) > 8)]_vars

\* Echo Orb has scored two presses 300 ms apart against an interval of
\* 800 ms: 5 points.
C22_EchoScoredFive ==
  /\ view = "echo"
  /\ echo.phase = "result"
  /\ echo.intervalMs = 800
  /\ Len(echo.taps) = 2
  /\ echo.taps[2] - echo.taps[1] = 300
  /\ echo.score = 5

\* C23: a listen phase of Echo Orb emits exactly two cues (echo.cues counts
\* the tones of the current cycle's listen phase) before the phase changes
\* to tap.
C23_TwoCues ==
  (view = "echo" /\ echo.phase = "tap") => (echo.cues = 2)

\* C24: a release of PressureCraft that finds fill within [a, b] adds 12 to
\* the score, raises level by 1 and sets fill to 0.15; one that finds it
\* outside sets the score to max(0, score - 4) and fill to 0.05 and leaves
\* level as it is; level changes on a release only and never decreases.
C24_ReleaseOutcome ==
  [][/\ PressureRelease =>
          IF pressure.fill >= pressure.a /\ pressure.fill <= pressure.b
            THEN /\ pressure'.score = pressure.score + 12
                 /\ pressure'.level = pressure.level + 1
                 /\ pressure'.fill = 150
            ELSE /\ pressure'.score = Max(0, pressure.score - 4)
                 /\ pressure'.level = pressure.level
                 /\ pressure'.fill = 50
     /\ (view = "pressure" /\ view' = "pressure") =>
          /\ pressure'.level >= pressure.level
          /\ (pressure'.level # pressure.level) => PressureRelease]_vars

\* Frame gaps, in ms, a frame of PressureCraft is tried with from every
\* reachable state
C25_Gaps == {0, 16, 100, 400, 1000, 60000}

\* Zones 0 <= a < b <= 1 of width within [0.15, 0.2], in either direction,
\* at levels 1 to 4: the states of the zone a frame is tried on
C25_Zones ==
  {[PressureInit EXCEPT !.a = a, !.b = a + w, !.dir = d, !.level = l] :
     a \in {0, 1, 100, 400, 500, 790, 800, 849, 850}, w \in {150, 151, 199, 200},
     d \in {-1, 1}, l \in 1..4}

\* What a frame of gap dt keeps of a zone p
C25_Kept(p, dt) ==
  LET q == PressureLoop(p, dt)
  IN (p.b <= 1000) =>
       /\ 0 <= q.a /\ q.a < q.b /\ q.b <= 1000
       /\ q.b - q.a \in 150..200
       /\ q.b - q.a <= p.b - p.a

\* C25: PressureCraft's zone satisfies 0 <= a < b <= 1 with a width within
\* [0.15, 0.2] in every reachable state, and a frame of any of the gaps
\* above keeps it so, does not widen it, moves it by
\* dt * (0.2 + 0.04 * level) unless it turns, and reverses its direction
\* exactly when the move brings b to 1 or beyond, or a to 0 or below. The
\* same frames keep every zone of C25_Zones (tried once, as the game is
\* mounted).
C25_ZoneInvariant ==
  (view = "pressure") =>
    /\ 0 <= pressure.a /\ pressure.a < pressure.b /\ pressure.b <= 1000
    /\ pressure.b - pressure.a \in 150..200
    /\ pressure.dir \in {-1, 1}
    /\ \A dt \in C25_Gaps :
         LET q == PressureLoop(pressure, dt)
             step == (dt * (200 + 40 * pressure.level)) \div 1000
             reach == \/ pressure.b + pressure.dir * step >= 1000
                      \/ pressure.a + pressure.dir * step <= 0
         IN /\ 0 <= q.a /\ q.a < q.b /\ q.b <= 1000
            /\ q.b - q.a \in 150..200
            /\ q.b - q.a <= pressure.b - pressure.a
            /\ (q.dir = -pressure.dir) <=> reach
            /\ (q.dir = pressure.dir) <=> ~reach
            /\ ~reach => /\ q.a = pressure.a + pressure.dir * step
                         /\ q.b = pressure.b + pressure.dir * step
    /\ (pressure = [PressureInit EXCEPT !.raf = TRUE]) =>
         \A p \in C25_Zones : \A dt \in C25_Gaps : C25_Kept(p, dt)

\* The zone has turned at the top and moves down, narrowed to 0.15.
C25_ZoneTurned ==
  /\ view = "pressure"
  /\ pressure.dir = -1
  /\ pressure.b - pressure.a = 150

\* Frame gaps, in ms, a frame of AscendLight is tried with from every
\* reachable state
C26_Gaps == {0, 100, 5000}

\* The zones of w whose closeness 1 - d / r to the craft exceeds 0.8
C26_CloseZones(w) ==
  {i \in 1..5 :
     clamp(1000 - (5 * hypot((35 * CanvasW) \div 10 - w.zx[i], w.y - w.zy[i])) \div 3,
           0, 1000) > 800}

\* What one frame from w to v keeps
C26_Frame(w, v) ==
  /\ v.y \in 100..(10 * (CanvasH - 10))
  /\ ~w.alive => (~v.alive /\ v.score = w.score)
  /\ (w.alive /\ ~v.alive) =>
       (v.score = w.score /\ v.y \in {100, 10 * (CanvasH - 10)})
  /\ v.alive => (v.score = w.score + Cardinality(C26_CloseZones(v)))

\* C26: in AscendLight a crash is terminal: a frame that brings the craft
\* beyond the top (y < 10) or the bottom (y > H - 10) ends the craft's life
\* for the rest of the session, whatever is pressed, and from that frame on
\* the score does not change; a frame of a living craft adds 1 to the score
\* for each zone whose closeness exceeds 0.8 and nothing else; y is within
\* [10, H - 10] after every frame, whatever the gap.
C26_CrashIsTerminal ==
  [][/\ (view = "ascend") =>
          /\ ascend.y \in 100..(10 * (CanvasH - 10))
          /\ \A dt \in C26_Gaps : \A r \in AscendRand :
               C26_Frame(ascend, AscendLoop(ascend, dt, FALSE, r))
     /\ (view = "ascend" /\ view' = "ascend") =>
          /\ ~ascend.alive => (~ascend'.alive /\ ascend'.score = ascend.score)
          /\ (ascend'.score # ascend.score \/ ascend'.y # ascend.y) =>
               C26_Frame(ascend, ascend')]_vars

\* The craft has scored in a zone and then crashed at the top.
C26_CrashedAfterScoring ==
  /\ view = "ascend"
  /\ ~ascend.alive
  /\ ascend.score > 0
  /\ ascend.y = 100

\* C27: Heartbeat starts in calibration, moves to sync on the sixth press
\* and on no other step, and never returns; the score does not change
\* during calibration; in sync the derived bpm (bpmNum / bpmDen) is within
\* [50, 150], also when the six presses bear the same timestamp.
C27_CalibrationThenSync ==
  [][(view = "heart" /\ view' = "heart") =>
       /\ (heart.phase = "sync") =>
            /\ heart'.phase = "sync"
            /\ heart.bpmDen > 0
            /\ 50 * heart.bpmDen <= heart.bpmNum
            /\ heart.bpmNum <= 150 * heart.bpmDen
       /\ (heart.phase = "cal") => (heart'.score = heart.score)
       /\ (heart.phase = "cal" /\ heart'.phase = "sync") => (Len(heart.taps) = 5)
       /\ (heart.phase = "cal" /\ Len(heart.taps) = 5 /\ heart'.taps # heart.taps) =>
            (heart'.phase = "sync")]_vars

\* The divisor k of the tokens of a session, by game
C28_K ==
  [g \in GameKeys |->
     IF g \in {"pulse", "heat"} THEN 5 ELSE IF g = "ascend" THEN 8 ELSE 6]

\* Best scores a record may hold for the game in view when it is left
C28_Bests == {0, 4, 7, 20}

\* C28: Exit & Save in game g with session score s adds floor(s / k) tokens
\* (k = 5 for PulseLink and HeatBloom, 8 for AscendLight, 6 for the other
\* games), sets best[g] to max(best[g], s), leaves the other bests and the
\* palette as they are and returns to the menu; onExit in the menu, the
\* store or the about view changes neither the record nor the view.
C28_ExitAndSaveEffect ==
  [][/\ ExitAndSave =>
          /\ state'.tokens = state.tokens + (Score(view) \div C28_K[view])
          /\ state'.best[view] = Max(state.best[view], Score(view))
          /\ \A h \in GameKeys \ {view} : state'.best[h] = state.best[h]
          /\ state'.palette = state.palette
          /\ palette' = palette
          /\ view' = "menu"
     /\ InGame =>
          \A b \in C28_Bests :
            LET was == [state EXCEPT !.best[view] = b]
                now == onExitState(view, award(was, Floor(Score(view), TokenDivisor(view))),
                                   Score(view))
            IN /\ now.best[view] = Max(b, Score(view))
               /\ now.tokens = state.tokens + (Score(view) \div C28_K[view])
               /\ \A h \in GameKeys \ {view} : now.best[h] = state.best[h]
               /\ now.palette = state.palette
     /\ \A v \in {"menu", "store", "about"} : \A gscore \in ScoreSamples :
          /\ onExitState(v, state, gscore) = state
          /\ onExitView(v) = v]_vars

\* PulseLink has been left by Exit & Save with a score of 10: 2 tokens and
\* a best of 10.
C28_PulseSaved ==
  /\ view = "menu"
  /\ settle.onExit = 1
  /\ settle.award = 1
  /\ settle.score = 10
  /\ state.tokens = 2
  /\ state.best["pulse"] = 10

====
